---- MODULE Spec2Model ----
(***************************************************************************)
(* Study Tracker Backend (src/app.py): the flat-file user store           *)
(* (load_users / save_users), the credential validators, and the          *)
(* register / login request handlers, over a small model of the           *)
(* filesystem, and the port selection of main().                           *)
(*                                                                         *)
(* Strings are sequences of one-character strings, so that strip(),       *)
(* lower(), len() and the "@" test are computed as the code computes      *)
(* them.  A file's content is a sequence of tokens; json.dump produces    *)
(* it and json.load parses it, and a parse can fail.                      *)
(***************************************************************************)
EXTENDS Integers, Sequences, FiniteSets, TLC

VARIABLES
    files,   \* the directory: file name -> content (a token sequence) or Absent
    th,      \* concurrent request handlers: thread -> its local state
    last,    \* the most recent completed exchange (request, response, effects)
    prev,    \* the exchange before it, as far as it is remembered
             \* (NoExchange otherwise)
    hist,    \* what has happened so far in a run of the concurrent service
    proc     \* the server process: where main() is, and what it has chosen

vars == <<files, th, last, prev, hist, proc>>

----------------------------------------------------------------------------
(* Bounds of the model *)

\* readings of the clock (datetime.utcnow()): 1..MaxTime
MaxTime == 1
\* tokens a save may have written when its write fails: 0..MaxCut
MaxCut == 1
\* request handlers running at the same time (the development server is threaded)
NumThreads == 2
\* requests the concurrent service takes in one run
MaxRequests == 3
\* characters of a PORT value or of a command-line argument: 0..MaxPortLen
MaxPortLen == 2

Times == 1..MaxTime
Threads == 1..NumThreads

----------------------------------------------------------------------------
(* Program constants *)

USERS_FILE == "users.json"
TMP_FILE == "users.json.tmp"
CORRUPT_FILE == "users.json.corrupt"
FileNames == {USERS_FILE, TMP_FILE, CORRUPT_FILE}

MinEmailLen == 5
MinPasswordLen == 6

----------------------------------------------------------------------------
(* Strings *)

Whitespace == {" "}

UpperCase ==
    <<"A", "B", "C", "D", "E", "F", "G", "H", "I", "J", "K", "L", "M",
      "N", "O", "P", "Q", "R", "S", "T", "U", "V", "W", "X", "Y", "Z">>

LowerCase ==
    <<"a", "b", "c", "d", "e", "f", "g", "h", "i", "j", "k", "l", "m",
      "n", "o", "p", "q", "r", "s", "t", "u", "v", "w", "x", "y", "z">>

\* the lowercase of each uppercase letter
Lowered ==
    [c \in {UpperCase[i] : i \in 1..Len(UpperCase)} |->
        LowerCase[CHOOSE i \in 1..Len(UpperCase) : UpperCase[i] = c]]

LowerChar(c) == IF c \in DOMAIN Lowered THEN Lowered[c] ELSE c

\* str.lower()
Lower(s) == [i \in 1..Len(s) |-> LowerChar(s[i])]

RECURSIVE LStrip(_)
LStrip(s) ==
    IF s # <<>> /\ Head(s) \in Whitespace THEN LStrip(Tail(s)) ELSE s

RECURSIVE RStrip(_)
RStrip(s) ==
    IF s # <<>> /\ s[Len(s)] \in Whitespace
    THEN RStrip(SubSeq(s, 1, Len(s) - 1))
    ELSE s

\* str.strip()
Strip(s) == RStrip(LStrip(s))

Contains(s, c) == \E i \in 1..Len(s) : s[i] = c

\* (x or "").strip().lower() for a string x
Normalize(s) == Lower(Strip(s))

----------------------------------------------------------------------------
(* JSON values of a request field: a string, null / missing / any falsy     *)
(* value, or a truthy value that is not a string (a non-zero number)        *)

JStr(s) == [t |-> "str", s |-> s]
JNull == [t |-> "null", s |-> <<>>]
JNum == [t |-> "num", s |-> <<>>]

Truthy(v) == (v.t = "str" /\ v.s # <<>>) \/ v.t = "num"

\* x or ""
OrEmpty(v) == IF Truthy(v) THEN v ELSE JStr(<<>>)

\* the normalized email and the password a handler works with, for a request
\* whose fields are strings or missing
KeyOf(req) == Normalize(OrEmpty(req.email).s)
PwOf(req) == OrEmpty(req.password)


is_valid_email(email) ==
    email.t = "str" /\ Contains(email.s, "@") /\ Len(email.s) >= MinEmailLen

is_valid_password_mut_len(password) ==
    password.t = "str" /\ Len(password.s) >= MinPasswordLen - 1

is_valid_password(password) ==
    password.t = "str" /\ Len(password.s) >= MinPasswordLen

----------------------------------------------------------------------------
(* Password hashes: "method$salt$digest".  The digest is a one-way function *)
(* of salt and password, kept symbolic; so is the salt the library draws.   *)
(* NoHash is a missing or empty hash, NoTime a missing created_at.          *)

NoHash == <<>>
NoTime == 0

Digest(salt, pw) == <<salt, pw>>

generate_password_hash(pw) == <<"scrypt", "salt", Digest("salt", pw)>>

check_password_hash(h, pw) == Len(h) = 3 /\ h[3] = Digest(h[2], pw)

----------------------------------------------------------------------------
(* The user table: a dict in insertion order, a sequence of entries         *)
(* [k: email, h: password_hash, c: created_at] with distinct keys           *)

Entry(k, h, c) == [k |-> k, h |-> h, c |-> c]

Keys(users) == {users[i].k : i \in 1..Len(users)}

Has(users, k) == k \in Keys(users)

Index(users, k) == CHOOSE i \in 1..Len(users) : users[i].k = k

\* users.get(k), for a key the table has
Get(users, k) == users[Index(users, k)]

\* users[k] = {...}
Put(users, e) ==
    IF Has(users, e.k)
    THEN [users EXCEPT ![Index(users, e.k)] = e]
    ELSE Append(users, e)

\* dict equality: key for key and field for field, whatever the order
TableFn(users) ==
    [k \in Keys(users) |->
        [password_hash |-> Get(users, k).h, created_at |-> Get(users, k).c]]

----------------------------------------------------------------------------
(* File contents: token sequences *)

Tok(t, k, h, c) == [t |-> t, k |-> k, h |-> h, c |-> c]
LBrace == Tok("lbrace", <<>>, <<>>, 0)
RBrace == Tok("rbrace", <<>>, <<>>, 0)
EntryTok(e) == Tok("entry", e.k, e.h, e.c)
\* text that is not JSON (also the zero bytes of a hole)
TextTok == Tok("text", <<>>, <<>>, 0)
\* a complete JSON value that is not an object
ArrayTok == Tok("array", <<>>, <<>>, 0)
\* bytes that are not valid UTF-8
BadByteTok == Tok("badbyte", <<>>, <<>>, 0)

\* json.dump(users, f, indent=2)
Serialize(users) ==
    <<LBrace>> \o [i \in 1..Len(users) |-> EntryTok(users[i])] \o <<RBrace>>

\* what json.load(f) does with a content: returns an object, returns another
\* value, raises JSONDecodeError, or raises UnicodeDecodeError in f.read()
ParseKind(d) ==
    IF \E i \in 1..Len(d) : d[i].t = "badbyte" THEN "undecodable"
    ELSE IF d = <<ArrayTok>> THEN "nonobject"
    ELSE IF /\ Len(d) >= 2
            /\ d[1].t = "lbrace"
            /\ d[Len(d)].t = "rbrace"
            /\ \A i \in 2..(Len(d) - 1) : d[i].t = "entry"
         THEN "object"
         ELSE "malformed"

RECURSIVE ParseEntries(_, _)
ParseEntries(d, acc) ==
    IF d = <<>> THEN acc
    ELSE ParseEntries(Tail(d), Put(acc, Entry(Head(d).k, Head(d).h, Head(d).c)))

\* the dict json.load returns for a content of kind "object"
ParseTable(d) == ParseEntries(SubSeq(d, 2, Len(d) - 1), <<>>)

----------------------------------------------------------------------------
(* The filesystem *)

NoFile == [exists |-> FALSE, data |-> <<>>]
File(d) == [exists |-> TRUE, data |-> d]

\* os.rename / os.replace of an existing src
FRename(f, src, dst) == [f EXCEPT ![dst] = f[src], ![src] = NoFile]

\* open(n, "w"): creates n, or truncates the file n names
FOpenW(f, n) == [f EXCEPT ![n] = File(<<>>)]

Max(a, b) == IF a >= b THEN a ELSE b
Min(a, b) == IF a <= b THEN a ELSE b

\* write(toks) at offset off of the file n names; a hole reads as zero bytes
FWriteAt(f, n, off, toks) ==
    LET d == f[n].data
        new == [i \in 1..Max(Len(d), off + Len(toks)) |->
                   IF i > off /\ i <= off + Len(toks) THEN toks[i - off]
                   ELSE IF i <= Len(d) THEN d[i]
                   ELSE TextTok]
    IN [f EXCEPT ![n] = File(new)]

----------------------------------------------------------------------------
(* Storage faults of one call: the quarantine rename fails (rename), the    *)
(* open or read of users.json fails (read), the save fails when it opens    *)
(* the temporary file, while it writes it (after cut tokens), or when it    *)
(* replaces users.json                                                      *)

NoFault == [read |-> FALSE, rename |-> FALSE, save |-> "ok", cut |-> 0]

\* everything that is not an object is quarantined
load_users_mut_quarantine_all(f, flt) ==
    IF ~f[USERS_FILE].exists THEN [users |-> <<>>, files |-> f]
    ELSE IF flt.read THEN [users |-> <<>>, files |-> f]
    ELSE LET kind == ParseKind(f[USERS_FILE].data) IN
         IF kind = "object"
         THEN [users |-> ParseTable(f[USERS_FILE].data), files |-> f]
         ELSE IF flt.rename THEN [users |-> <<>>, files |-> f]
         ELSE [users |-> <<>>, files |-> FRename(f, USERS_FILE, CORRUPT_FILE)]

\* the file is moved away whenever it was read, also when it parsed
load_users_mut_rename_always(f, flt) ==
    IF ~f[USERS_FILE].exists THEN [users |-> <<>>, files |-> f]
    ELSE IF flt.read THEN [users |-> <<>>, files |-> f]
    ELSE LET kind == ParseKind(f[USERS_FILE].data)
             moved == IF flt.rename THEN f
                      ELSE FRename(f, USERS_FILE, CORRUPT_FILE)
         IN [users |-> IF kind = "object" THEN ParseTable(f[USERS_FILE].data)
                       ELSE <<>>,
             files |-> moved]

\* load_users(), lines 26-42: the table returned and the files afterwards
load_users(f, flt) ==
    IF ~f[USERS_FILE].exists THEN [users |-> <<>>, files |-> f]
    ELSE IF flt.read THEN [users |-> <<>>, files |-> f]
    ELSE LET kind == ParseKind(f[USERS_FILE].data) IN
         CASE kind = "object" ->
                [users |-> ParseTable(f[USERS_FILE].data), files |-> f]
           [] kind = "nonobject" -> [users |-> <<>>, files |-> f]
           [] kind = "malformed" ->
                IF flt.rename THEN [users |-> <<>>, files |-> f]
                ELSE [users |-> <<>>,
                      files |-> FRename(f, USERS_FILE, CORRUPT_FILE)]
           [] OTHER -> [users |-> <<>>, files |-> f]

\* the table is written over users.json itself
save_users_mut_in_place(f, users, flt) ==
    IF flt.save = "open" THEN f
    ELSE LET opened == FOpenW(f, USERS_FILE)
             content == Serialize(users)
         IN IF flt.save = "write"
            THEN FWriteAt(opened, USERS_FILE, 0,
                          SubSeq(content, 1, Min(flt.cut, Len(content) - 1)))
            ELSE FWriteAt(opened, USERS_FILE, 0, content)

\* the temporary file is opened without being truncated
save_users_mut_no_truncate(f, users, flt) ==
    IF flt.save = "open" THEN f
    ELSE LET opened == [f EXCEPT ![TMP_FILE].exists = TRUE]
             content == Serialize(users)
         IN IF flt.save = "write"
            THEN FWriteAt(opened, TMP_FILE, 0,
                          SubSeq(content, 1, Min(flt.cut, Len(content) - 1)))
            ELSE LET written == FWriteAt(opened, TMP_FILE, 0, content)
                 IN IF flt.save = "replace" THEN written
                    ELSE FRename(written, TMP_FILE, USERS_FILE)

\* the temporary file is written and never moved over users.json
save_users_mut_no_replace(f, users, flt) ==
    IF flt.save = "open" THEN f
    ELSE FWriteAt(FOpenW(f, TMP_FILE), TMP_FILE, 0, Serialize(users))

\* save_users(users), lines 45-52: the files afterwards
save_users(f, users, flt) ==
    IF flt.save = "open" THEN f
    ELSE LET opened == FOpenW(f, TMP_FILE)
             content == Serialize(users)
         IN IF flt.save = "write"
            THEN FWriteAt(opened, TMP_FILE, 0,
                          SubSeq(content, 1, Min(flt.cut, Len(content) - 1)))
            ELSE LET written == FWriteAt(opened, TMP_FILE, 0, content)
                 IN IF flt.save = "replace" THEN written
                    ELSE FRename(written, TMP_FILE, USERS_FILE)

----------------------------------------------------------------------------
(* Requests and responses *)

Request(op, body, email, password) ==
    [op |-> op, body |-> body, email |-> email, password |-> password]

Response(status, message) == [status |-> status, body |-> [message |-> message]]

\* an uncaught exception in a view: the framework answers 500
InternalError == Response(500, "Internal Server Error")

\* what a handler did: its response, the files afterwards, how often it called
\* load_users and save_users, and the created_at it stored (NoTime: none)
Outcome(resp, f, loads, saves, created) ==
    [resp |-> resp, files |-> f, loads |-> loads, saves |-> saves,
     created |-> created]

Invalid400 == Response(400, "Invalid email or password (min length 6).")
Conflict409 == Response(409, "Email already exists")
Created201 == Response(201, "Account created successfully")
Required400 == Response(400, "Email and password required")
Unauthorized401 == Response(401, "Invalid email or password")

\* lines 70-72 and 92-94: data.get raises for a body that is no object, and
\* .strip() for an email that is no string
Raises(req) == req.body = "array" \/ OrEmpty(req.email).t # "str"

\* the email is used as it was sent
NewEntry_mut_raw_key(req, now) ==
    Entry(OrEmpty(req.email).s, generate_password_hash(PwOf(req).s), now)

\* the record register stores, lines 81-85
NewEntry(req, now) ==
    Entry(KeyOf(req), generate_password_hash(PwOf(req).s), now)

\* the duplicate is answered 409 after the table was saved again
register_mut_save_on_conflict(f, req, now, flt) ==
    IF Raises(req) THEN Outcome(InternalError, f, 0, 0, NoTime)
    ELSE IF ~is_valid_email(JStr(KeyOf(req))) \/ ~is_valid_password(PwOf(req))
    THEN Outcome(Invalid400, f, 0, 0, NoTime)
    ELSE
    LET ld == load_users(f, flt) IN
    IF Has(ld.users, KeyOf(req))
    THEN Outcome(Conflict409, save_users(ld.files, ld.users, flt), 1, 1, NoTime)
    ELSE Outcome(Created201,
                 save_users(ld.files, Put(ld.users, NewEntry(req, now)), flt),
                 1, 1, now)

\* register(), lines 68-87
register(f, req, now, flt) ==
    IF Raises(req) THEN Outcome(InternalError, f, 0, 0, NoTime)
    ELSE IF ~is_valid_email(JStr(KeyOf(req))) \/ ~is_valid_password(PwOf(req))
    THEN Outcome(Invalid400, f, 0, 0, NoTime)
    ELSE
    LET ld == load_users(f, flt) IN
    IF Has(ld.users, KeyOf(req))
    THEN Outcome(Conflict409, ld.files, 1, 0, NoTime)
    ELSE Outcome(Created201,
                 save_users(ld.files, Put(ld.users, NewEntry(req, now)), flt),
                 1, 1, now)

\* the whole stored record is returned
LoginOk_mut_whole_record(email, user) ==
    [status |-> 200,
     body |-> [message |-> "Login successful",
               user |-> [email |-> email, created_at |-> user.c,
                         password_hash |-> user.h]]]

\* line 108
LoginOk(email, user) ==
    [status |-> 200,
     body |-> [message |-> "Login successful",
               user |-> [email |-> email, created_at |-> user.c]]]

\* an unknown email is told apart
login_answer_mut_unknown_404(users, req) ==
    IF ~Has(users, KeyOf(req)) THEN Response(404, "No such account")
    ELSE
    LET user == Get(users, KeyOf(req)) IN
    IF user.h = NoHash THEN Unauthorized401
    ELSE IF PwOf(req).t # "str" THEN InternalError
    ELSE IF ~check_password_hash(user.h, PwOf(req).s) THEN Unauthorized401
    ELSE LoginOk(KeyOf(req), user)

\* login(), lines 100-108: the answer once the table is loaded.  A record
\* without fields is falsy, one without password_hash has no stored_hash;
\* check_password_hash raises for a password that is no string.
login_answer(users, req) ==
    IF ~Has(users, KeyOf(req)) THEN Unauthorized401
    ELSE
    LET user == Get(users, KeyOf(req)) IN
    IF user.h = NoHash THEN Unauthorized401
    ELSE IF PwOf(req).t # "str" THEN InternalError
    ELSE IF ~check_password_hash(user.h, PwOf(req).s) THEN Unauthorized401
    ELSE LoginOk(KeyOf(req), user)

\* login writes the table it loaded back
login_mut_write_back(f, req, flt) ==
    IF Raises(req) THEN Outcome(InternalError, f, 0, 0, NoTime)
    ELSE IF KeyOf(req) = <<>> \/ ~Truthy(PwOf(req))
    THEN Outcome(Required400, f, 0, 0, NoTime)
    ELSE
    LET ld == load_users(f, flt) IN
    Outcome(login_answer(ld.users, req),
            save_users(ld.files, ld.users, flt), 1, 1, NoTime)

\* login(), lines 90-108
login(f, req, flt) ==
    IF Raises(req) THEN Outcome(InternalError, f, 0, 0, NoTime)
    ELSE IF KeyOf(req) = <<>> \/ ~Truthy(PwOf(req))
    THEN Outcome(Required400, f, 0, 0, NoTime)
    ELSE
    LET ld == load_users(f, flt) IN
    Outcome(login_answer(ld.users, req), ld.files, 1, 0, NoTime)

----------------------------------------------------------------------------
(* Startup: main(), lines 134-143 *)

Digits == <<"0", "1", "2", "3", "4", "5", "6", "7", "8", "9">>

DigitValue == [c \in {Digits[i] : i \in DOMAIN Digits} |->
                  (CHOOSE i \in DOMAIN Digits : Digits[i] = c) - 1]

\* the text int() converts once the whitespace around it is gone and a sign
\* is taken off
Unsigned(s) ==
    LET t == Strip(s)
    IN IF t # <<>> /\ Head(t) \in {"+", "-"} THEN Tail(t) ELSE t

\* int(s) returns: s is decimal digits, with a sign before and whitespace
\* around them allowed; otherwise int(s) raises ValueError
IsInt(s) ==
    /\ Unsigned(s) # <<>>
    /\ \A i \in DOMAIN Unsigned(s) : Unsigned(s)[i] \in DOMAIN DigitValue

RECURSIVE DecimalValue(_)
DecimalValue(d) ==
    IF d = <<>> THEN 0
    ELSE DecimalValue(SubSeq(d, 1, Len(d) - 1)) * Len(Digits)
           + DigitValue[d[Len(d)]]

\* the value of int(s), for s with IsInt(s)
IntOf(s) ==
    IF Head(Strip(s)) = "-" THEN 0 - DecimalValue(Unsigned(s))
    ELSE DecimalValue(Unsigned(s))

\* a variable of the environment: unset, or set to a text
Unset == [set |-> FALSE, s |-> <<>>]
SetTo(s) == [set |-> TRUE, s |-> s]

\* the "5000" of os.environ.get("PORT", "5000"), line 135
DefaultPortText == <<"5", "0", "0", "0">>

Loopback == "127.0.0.1"
Program == <<"a", "p", "p", ".", "p", "y">>

\* the process at the start of main(): PORT as the environment has it and
\* sys.argv; a port is <<>> as long as it is not assigned
Process(pc, environ, argv, default_port, port, warned, host) ==
    [pc |-> pc, environ |-> environ, argv |-> argv,
     default_port |-> default_port, port |-> port, warned |-> warned,
     host |-> host]

Started(environ, argv) ==
    Process("start", environ, argv, <<>>, <<>>, FALSE, "")

\* lines 135-136: default_port = int(os.environ.get("PORT", "5000")), outside
\* any try: a ValueError ends the process
MainDefault(p) ==
    LET text == IF p.environ.set THEN p.environ.s ELSE DefaultPortText
    IN IF IsInt(text)
       THEN [p EXCEPT !.pc = "args",
                      !.default_port = <<IntOf(text)>>,
                      !.port = <<IntOf(text)>>]
       ELSE [p EXCEPT !.pc = "raised"]

\* lines 137-141: the first argument replaces the port when int() takes it,
\* a warning is logged when it does not
MainArg(p) ==
    IF Len(p.argv) > 1
    THEN IF IsInt(p.argv[2])
         THEN [p EXCEPT !.pc = "run", !.port = <<IntOf(p.argv[2])>>]
         ELSE [p EXCEPT !.pc = "run", !.warned = TRUE]
    ELSE [p EXCEPT !.pc = "run"]

\* lines 142-143: app.run(host="127.0.0.1", port=port, debug=True) is called
MainRun(p) == [p EXCEPT !.pc = "serving", !.host = Loopback]

\* the process of the service: main() run with PORT unset and no argument
Serving == MainRun(MainArg(MainDefault(Started(Unset, <<Program>>))))

----------------------------------------------------------------------------
(* Inputs *)

EmailA == <<"a", "@", "b", ".", "c">>
\* "A@B.c ": another spelling of EmailA
EmailAVar == <<"A", "@", "B", ".", "c", " ">>
EmailX == <<"x", "@", "y", ".", "z">>
\* " X@y.z": another spelling of EmailX
EmailXVar == <<" ", "X", "@", "y", ".", "z">>
\* " a@b ": five characters with an "@", three once stripped
EmailShort == <<" ", "a", "@", "b", " ">>
EmailNoAt == <<"a", "b", "c", "d", "e">>

PwA == <<"s", "e", "c", "r", "e", "t">>
PwB == <<"S", "e", "c", "r", "e", "t", "1">>
PwShort == <<"s", "e", "c", "r", "e">>

EmailInputs ==
    {JStr(EmailA), JStr(EmailAVar), JStr(EmailX), JStr(EmailShort),
     JStr(EmailNoAt), JNull}
PasswordInputs == {JStr(PwA), JStr(PwB), JStr(PwShort), JNull}

\* requests whose body is a JSON object with string or missing fields
Requests(op) ==
    {Request(op, "object", e, p) : e \in EmailInputs, p \in PasswordInputs}

----------------------------------------------------------------------------
(* Sequential service: one request at a time, each handler run to its end   *)

\* a completed request: what was asked, what was answered, and what the
\* handler did
Exchange(req, out) ==
    [req |-> req, resp |-> out.resp, loads |-> out.loads, saves |-> out.saves,
     created |-> out.created, users |-> <<>>, flt |-> NoFault, seen |-> "-"]

\* what json.load would make of users.json as it is
KindOf(f) ==
    IF f[USERS_FILE].exists THEN ParseKind(f[USERS_FILE].data) ELSE "absent"

\* a completed direct call of the store: load_users() returning users, or
\* save_users(users); flt is the fault the call met and seen the kind of
\* users.json when it was made
StoreCall(op, users, flt, seen) ==
    [req |-> Request(op, "none", JNull, JNull), resp |-> Response(0, ""),
     loads |-> IF op = "load" THEN 1 ELSE 0,
     saves |-> IF op = "save" THEN 1 ELSE 0,
     created |-> NoTime, users |-> users, flt |-> flt, seen |-> seen]

NoExchange ==
    Exchange(Request("none", "none", JNull, JNull),
             Outcome(Response(0, ""), <<>>, 0, 0, NoTime))

\* what the next exchange remembers of this one: a Register that created an
\* account
Remember(x) ==
    IF x.req.op = "register" /\ x.resp.status = 201
    THEN x ELSE NoExchange

\* a request handler's thread: where it is (pc), its request, the table it
\* is about to save (users) with the created_at in it, what it read from
\* users.json when that failed to parse (read), the file its open handle
\* refers to (fh: the name that file has now, "orphan" when it has none any
\* more, "none" without an open handle), and the status it answered last
Thread(pc, req, users, read, fh, status, created) ==
    [pc |-> pc, req |-> req, users |-> users, read |-> read, fh |-> fh,
     status |-> status, created |-> created]

NoRequest == Request("none", "none", JNull, JNull)

Idle(status) == Thread("idle", NoRequest, <<>>, NoFile, "none", status, NoTime)

NoThreads == [t \in Threads |-> Idle(0)]

\* what has happened so far in a run of the concurrent service: how many
\* requests were taken (begun), the emails whose Register was answered 201
\* (acked), and whether a request was taken while another was being handled
\* (overlap)
History(begun, acked, overlap) ==
    [begun |-> begun, acked |-> acked, overlap |-> overlap]

NoHistory == History(0, {}, FALSE)

Dir(users_file) ==
    [n \in FileNames |-> IF n = USERS_FILE THEN users_file ELSE NoFile]

\* a record written by hand, without a password_hash
LegacyTable == <<Entry(EmailA, NoHash, NoTime)>>

\* users.json before the first request: absent, an empty or a hand-written
\* table, text that is not JSON, a cut-off object, a JSON array, bytes that
\* are not UTF-8
InitialUsersFiles ==
    {NoFile, File(Serialize(<<>>)), File(Serialize(LegacyTable)),
     File(<<TextTok>>), File(<<LBrace>>), File(<<ArrayTok>>),
     File(<<BadByteTok>>)}

SeqInit ==
    /\ files \in {Dir(u) : u \in InitialUsersFiles}
    /\ th = NoThreads
    /\ last = NoExchange
    /\ prev = NoExchange
    /\ hist = NoHistory
    /\ proc = Serving

SeqRegister ==
    \E req \in Requests("register"), now \in Times :
        LET out == register(files, req, now, NoFault) IN
        /\ files' = out.files
        /\ last' = Exchange(req, out)
        /\ prev' = Remember(last)
        /\ UNCHANGED <<proc, th, hist>>

SeqLogin ==
    \E req \in Requests("login") :
        LET out == login(files, req, NoFault) IN
        /\ files' = out.files
        /\ last' = Exchange(req, out)
        /\ prev' = Remember(last)
        /\ UNCHANGED <<proc, th, hist>>

SeqNext == SeqRegister \/ SeqLogin

SeqSpec == SeqInit /\ [][SeqNext]_vars

----------------------------------------------------------------------------
(* The store on its own: load_users() and save_users(T) called directly on  *)
(* any table T, the quarantine rename and the save allowed to fail, and     *)
(* Register requests in between.  prev is the call before the last one,     *)
(* kept when the last one is a load_users(), or a Register that follows a   *)
(* load_users().                                                            *)

EntryA == Entry(EmailA, generate_password_hash(PwA), 1)
EntryX == Entry(EmailX, generate_password_hash(PwB), 1)
\* a record with a key that is no email and fields that are any strings
EntryRaw == Entry(<<"Z", " ">>, <<"h">>, MaxTime)

SaveTables ==
    {<<>>, <<EntryA>>, <<EntryRaw>>, <<EntryA, EntryX>>, <<EntryX, EntryA>>}

SaveFaults ==
    {[NoFault EXCEPT !.save = k] : k \in {"ok", "open", "replace"}}
    \cup {[NoFault EXCEPT !.save = "write", !.cut = c] : c \in 0..MaxCut}

LoadFaults == {[NoFault EXCEPT !.rename = b] : b \in BOOLEAN}

StoreRequests ==
    {Request("register", "object", JStr(EmailX), JStr(PwA)),
     Request("register", "object", JStr(EmailAVar), JStr(PwB)),
     Request("register", "object", JStr(EmailA), JStr(PwShort))}

StoreInit ==
    /\ files \in {[Dir(u) EXCEPT ![CORRUPT_FILE] = c] :
                     u \in InitialUsersFiles \cup {File(Serialize(<<EntryA>>))},
                     c \in {NoFile, File(<<TextTok, TextTok>>)}}
    /\ th = NoThreads
    /\ last = NoExchange
    /\ prev = NoExchange
    /\ hist = NoHistory
    /\ proc = Serving

StoreLoad ==
    \E flt \in LoadFaults :
        LET ld == load_users(files, flt) IN
        /\ files' = ld.files
        /\ last' = StoreCall("load", ld.users, flt, KindOf(files))
        /\ prev' = last
        /\ UNCHANGED <<proc, th, hist>>

StoreSave ==
    \E users \in SaveTables, flt \in SaveFaults :
        /\ files' = save_users(files, users, flt)
        /\ last' = StoreCall("save", users, flt, KindOf(files))
        /\ prev' = NoExchange
        /\ UNCHANGED <<proc, th, hist>>

StoreRegister ==
    \E req \in StoreRequests, now \in Times :
        LET out == register(files, req, now, NoFault) IN
        /\ files' = out.files
        /\ last' = Exchange(req, out)
        /\ prev' = IF last.req.op = "load" THEN last ELSE NoExchange
        /\ UNCHANGED <<proc, th, hist>>

StoreNext == StoreLoad \/ StoreSave \/ StoreRegister

StoreSpec == StoreInit /\ [][StoreNext]_vars

----------------------------------------------------------------------------------------------------------------------------------------
(* Sequential service on failing storage: each request meets one             *)
(* combination of storage faults                                             *)

\* the faults of a load_users call: none, or the open or read fails
ReadFaults == {NoFault, [NoFault EXCEPT !.read = TRUE]}

\* the faults of a load_users call and the save_users call after it
AllFaults ==
    {[l EXCEPT !.save = s.save, !.cut = s.cut] :
        l \in ReadFaults, s \in SaveFaults}

\* requests that reach the store, one of them with a password that is a JSON
\* number
FaultRequests ==
    {Request("register", "object", JStr(EmailA), JStr(PwA)),
     Request("register", "object", JStr(EmailX), JStr(PwB)),
     Request("login", "object", JStr(EmailA), JStr(PwA)),
     Request("login", "object", JStr(EmailA), JStr(PwB)),
     Request("login", "object", JStr(EmailX), JNull),
     Request("login", "object", JStr(EmailA), JNum)}

\* a completed request that met the faults flt, users.json being of kind seen
FaultExchange(req, out, flt, seen) ==
    [Exchange(req, out) EXCEPT !.flt = flt, !.seen = seen]

FaultInit ==
    /\ files \in {Dir(u) : u \in {NoFile, File(Serialize(<<>>)),
                                  File(Serialize(<<EntryA>>)), File(<<TextTok>>)}}
    /\ th = NoThreads
    /\ last = NoExchange
    /\ prev = NoExchange
    /\ hist = NoHistory
    /\ proc = Serving

FaultRegister ==
    \E req \in {r \in FaultRequests : r.op = "register"}, now \in Times,
       flt \in AllFaults :
        LET out == register(files, req, now, flt) IN
        /\ files' = out.files
        /\ last' = FaultExchange(req, out, flt, KindOf(files))
        /\ hist' = IF out.resp.status = 201
                   THEN [hist EXCEPT !.acked = @ \cup {KeyOf(req)}]
                   ELSE hist
        /\ UNCHANGED <<proc, th, prev>>

FaultLogin ==
    \E req \in {r \in FaultRequests : r.op = "login"}, flt \in ReadFaults :
        LET out == login(files, req, flt) IN
        /\ files' = out.files
        /\ last' = FaultExchange(req, out, flt, KindOf(files))
        /\ UNCHANGED <<proc, th, prev, hist>>

FaultNext == FaultRegister \/ FaultLogin

FaultSpec == FaultInit /\ [][FaultNext]_vars

----------------------------------------------------------------------------
(* Sequential service with request bodies of every shape *)

\* no body, bytes that are not JSON, or JSON that is falsy (null, 0, "", []):
\* get_json(silent=True) or {} is the empty object; a JSON array, string or
\* number that is truthy; and objects whose fields are strings, missing or
\* null, or numbers
ShapeRequests(op) ==
    {Request(op, "none", JNull, JNull), Request(op, "array", JNull, JNull)}
    \cup {Request(op, "object", e, p) :
             e \in {JStr(EmailA), JStr(EmailX), JNull, JNum},
             p \in {JStr(PwA), JStr(PwB), JNull, JNum}}

ShapeInit ==
    /\ files \in {Dir(NoFile), Dir(File(Serialize(<<EntryA>>)))}
    /\ th = NoThreads
    /\ last = NoExchange
    /\ prev = NoExchange
    /\ hist = NoHistory
    /\ proc = Serving

ShapeRegister ==
    \E req \in ShapeRequests("register"), now \in Times :
        LET out == register(files, req, now, NoFault) IN
        /\ files' = out.files
        /\ last' = Exchange(req, out)
        /\ UNCHANGED <<proc, th, prev, hist>>

ShapeLogin ==
    \E req \in ShapeRequests("login") :
        LET out == login(files, req, NoFault) IN
        /\ files' = out.files
        /\ last' = Exchange(req, out)
        /\ UNCHANGED <<proc, th, prev, hist>>

ShapeNext == ShapeRegister \/ ShapeLogin

ShapeSpec == ShapeInit /\ [][ShapeNext]_vars

----------------------------------------------------------------------------
(* Concurrent service: the threaded server runs a handler per request, and  *)
(* the handlers' file operations interleave.  One step is one system call   *)
(* with the handler's own computation up to the next one.  A table of the   *)
(* model fits the buffer of the file object, so that json.dump and the      *)
(* close write it with one write at offset 0.                               *)

ConcRequests ==
    {Request("register", "object", JStr(EmailA), JStr(PwA)),
     Request("register", "object", JStr(EmailXVar), JStr(PwB)),
     Request("register", "object", JStr(EmailShort), JStr(PwA)),
     Request("login", "object", JStr(EmailA), JStr(PwA))}

\* os.rename(src, dst) as the open handles see it: a handle on src's file
\* follows it to dst, a handle on the file dst named is left without a name
Retarget(threads, src, dst) ==
    [u \in DOMAIN threads |->
        IF threads[u].fh = src THEN [threads[u] EXCEPT !.fh = dst]
        ELSE IF threads[u].fh = dst THEN [threads[u] EXCEPT !.fh = "orphan"]
        ELSE threads[u]]

\* register saves a table of the new record alone
AfterLoad_mut_fresh_table(me, users, now) ==
    IF me.req.op = "login"
    THEN Idle(login_answer(users, me.req).status)
    ELSE IF Has(users, KeyOf(me.req))
    THEN Idle(409)
    ELSE [me EXCEPT
            !.pc = "save_open",
            !.read = NoFile,
            !.users = <<NewEntry(me.req, now)>>,
            !.created = now]

\* the handler after load_users() returned users: login answers; register
\* answers 409 or goes on to save_users (lines 78-86, 100-108)
AfterLoad(me, users, now) ==
    IF me.req.op = "login"
    THEN Idle(login_answer(users, me.req).status)
    ELSE IF Has(users, KeyOf(me.req))
    THEN Idle(409)
    ELSE [me EXCEPT
            !.pc = "save_open",
            !.read = NoFile,
            !.users = Put(users, NewEntry(me.req, now)),
            !.created = now]

Init ==
    /\ files \in {Dir(NoFile), Dir(File(Serialize(<<>>)))}
    /\ th = NoThreads
    /\ last = NoExchange
    /\ prev = NoExchange
    /\ hist = NoHistory
    /\ proc = Serving

\* a request arrives: lines 70-75 and 92-97, up to the call of load_users
Begin(t) ==
    /\ th[t].pc = "idle"
    /\ hist.begun < MaxRequests
    /\ hist' = [hist EXCEPT
                   !.begun = @ + 1,
                   !.overlap = @ \/ \E u \in Threads : th[u].pc # "idle"]
    /\ \E req \in ConcRequests :
          LET rejected ==
                  IF req.op = "register"
                  THEN \/ ~is_valid_email(JStr(KeyOf(req)))
                       \/ ~is_valid_password(PwOf(req))
                  ELSE KeyOf(req) = <<>> \/ ~Truthy(PwOf(req))
          IN th' = [th EXCEPT ![t] =
                       IF Raises(req) THEN Idle(500)
                       ELSE IF rejected THEN Idle(400)
                       ELSE [Idle(0) EXCEPT !.pc = "load", !.req = req]]
    /\ UNCHANGED <<proc, files, last, prev>>

\* load_users, lines 27-32: the file is tested, opened, read and parsed
Load(t) ==
    /\ th[t].pc = "load"
    /\ \E now \in Times :
          th' = [th EXCEPT ![t] =
                    IF KindOf(files) = "malformed"
                    THEN [th[t] EXCEPT !.pc = "quarantine",
                                       !.read = files[USERS_FILE]]
                    ELSE AfterLoad(th[t], load_users(files, NoFault).users, now)]
    /\ UNCHANGED <<proc, files, last, prev, hist>>

\* load_users, lines 33-39: the file that failed to parse is renamed, if a
\* users.json is still there
Quarantine(t) ==
    /\ th[t].pc = "quarantine"
    /\ \E now \in Times :
          LET moved == files[USERS_FILE].exists
              threads == IF moved THEN Retarget(th, USERS_FILE, CORRUPT_FILE)
                         ELSE th
          IN /\ files' = IF moved THEN FRename(files, USERS_FILE, CORRUPT_FILE)
                         ELSE files
             /\ th' = [threads EXCEPT ![t] = AfterLoad(th[t], <<>>, now)]
    /\ UNCHANGED <<proc, last, prev, hist>>

\* save_users, line 48: open(tmp, "w") creates or truncates users.json.tmp
SaveOpen(t) ==
    /\ th[t].pc = "save_open"
    /\ files' = FOpenW(files, TMP_FILE)
    /\ th' = [th EXCEPT ![t] =
                 [th[t] EXCEPT !.pc = "save_write", !.fh = TMP_FILE]]
    /\ UNCHANGED <<proc, last, prev, hist>>

\* save_users, line 49 and the close: the table is written to the file the
\* handle refers to, whatever name it has by now
SaveWrite(t) ==
    /\ th[t].pc = "save_write"
    /\ files' = IF th[t].fh \in FileNames
                THEN FWriteAt(files, th[t].fh, 0, Serialize(th[t].users))
                ELSE files
    /\ th' = [th EXCEPT ![t] =
                 [th[t] EXCEPT !.pc = "save_replace", !.fh = "none"]]
    /\ UNCHANGED <<proc, last, prev, hist>>

\* save_users, lines 50-52, and line 87: os.replace(tmp, USERS_FILE), which
\* fails (logged) when users.json.tmp is gone; the handler answers 201
SaveReplace(t) ==
    /\ th[t].pc = "save_replace"
    /\ LET there == files[TMP_FILE].exists
           threads == IF there THEN Retarget(th, TMP_FILE, USERS_FILE) ELSE th
       IN /\ files' = IF there THEN FRename(files, TMP_FILE, USERS_FILE)
                      ELSE files
          /\ th' = [threads EXCEPT ![t] = Idle(201)]
    /\ hist' = [hist EXCEPT !.acked = @ \cup {KeyOf(th[t].req)}]
    /\ UNCHANGED <<proc, last, prev>>

Next ==
    \E t \in Threads :
        \/ Begin(t)
        \/ Load(t)
        \/ Quarantine(t)
        \/ SaveOpen(t)
        \/ SaveWrite(t)
        \/ SaveReplace(t)

Spec == Init /\ [][Next]_vars

\* the same service started on a users.json that does not parse (a file cut
\* short or holding other text), the case of lines 33-39
CorruptInit ==
    /\ files \in {Dir(File(<<TextTok>>)), Dir(File(<<LBrace>>))}
    /\ th = NoThreads
    /\ last = NoExchange
    /\ prev = NoExchange
    /\ hist = NoHistory
    /\ proc = Serving

CorruptSpec == CorruptInit /\ [][Next]_vars

----------------------------------------------------------------------------
(* Startup of the process: every PORT value and every argument of up to     *)
(* MaxPortLen characters                                                     *)

PortChars == {"8", "0", "-", " ", "x"}

RECURSIVE Texts(_)
Texts(n) ==
    IF n = 0 THEN {<<>>}
    ELSE Texts(n - 1)
           \cup {Append(t, c) : t \in {u \in Texts(n - 1) : Len(u) = n - 1},
                                c \in PortChars}

PortEnvs == {Unset} \cup {SetTo(t) : t \in Texts(MaxPortLen)}
Argvs == {<<Program>>} \cup {<<Program, t>> : t \in Texts(MaxPortLen)}

MainInit ==
    /\ files = Dir(NoFile)
    /\ th = NoThreads
    /\ last = NoExchange
    /\ prev = NoExchange
    /\ hist = NoHistory
    /\ proc \in {Started(e, a) : e \in PortEnvs, a \in Argvs}

ReadEnv ==
    /\ proc.pc = "start"
    /\ proc' = MainDefault(proc)
    /\ UNCHANGED <<files, th, last, prev, hist>>

ReadArg ==
    /\ proc.pc = "args"
    /\ proc' = MainArg(proc)
    /\ UNCHANGED <<files, th, last, prev, hist>>

Run ==
    /\ proc.pc = "run"
    /\ proc' = MainRun(proc)
    /\ UNCHANGED <<files, th, last, prev, hist>>

MainNext == ReadEnv \/ ReadArg \/ Run

MainSpec == MainInit /\ [][MainNext]_vars

----------------------------------------------------------------------------
(* Claims about the sequential service *)

\* the table users.json holds (empty when it holds none)
StoredTable ==
    IF files[USERS_FILE].exists /\ ParseKind(files[USERS_FILE].data) = "object"
    THEN ParseTable(files[USERS_FILE].data)
    ELSE <<>>

Registered201(x) == x.req.op = "register" /\ x.resp.status = 201

\* last is a Register of the email that the Register just before it created
ReRegister ==
    /\ Registered201(prev)
    /\ last.req.op = "register"
    /\ KeyOf(last.req) = KeyOf(prev.req)

\* C2 as stated: after Register(e, p1) answered 201, the Register(e, p2) that
\* follows it answers 409 for every password p2, also an empty or short one.
C2_AnyPassword409 == ReRegister => last.resp.status = 409

\* C2, as the code has it: after Register(e, p1) answered 201, the Register(e, p2) that
\* follows it answers 409 when p2 has at least 6 characters and 400 when it
\* has fewer (the password is validated before the duplicate check).
C2_ReRegister ==
    ReRegister =>
        IF Len(PwOf(last.req).s) >= 6
        THEN last.resp = Response(409, "Email already exists")
        ELSE last.resp.status = 400

\* a second Register of the same email, with another valid password, got 409
C2_Witness ==
    /\ ReRegister
    /\ Len(PwOf(last.req).s) >= 6
    /\ PwOf(last.req) # PwOf(prev.req)
    /\ last.resp.status = 409

\* a Register with a valid password, of an email just registered
C3_SameKey ==
    /\ ReRegister
    /\ Len(PwOf(last.req).s) >= 6

\* C3: emails are identified up to strip + lower.  Register(e1, valid) 201 and
\* then Register(e2, valid) with the same normalized form answers 409, the
\* table then has that normalized form as its only key for the email, and a
\* Login that follows, with any spelling of it and the first password, answers
\* 200 with user.email the normalized form.
C3_Normalization ==
    /\ [](C3_SameKey =>
            /\ last.resp.status = 409
            /\ {k \in Keys(StoredTable) : Normalize(k) = KeyOf(prev.req)}
                   = {KeyOf(prev.req)}
            /\ Cardinality({i \in 1..Len(StoredTable) :
                               StoredTable[i].k = KeyOf(prev.req)}) = 1)
    /\ [][(/\ C3_SameKey
           /\ last'.req.op = "login"
           /\ KeyOf(last'.req) = KeyOf(prev.req)
           /\ PwOf(last'.req) = PwOf(prev.req))
          => /\ last'.resp.status = 200
             /\ last'.resp.body.user.email = KeyOf(prev.req)]_vars

\* a Register spelled otherwise than the one that created the account was
\* refused with 409, and the account is stored once, under the normalized form
C3_Witness ==
    /\ C3_SameKey
    /\ last.resp.status = 409
    /\ last.req.email.s # prev.req.email.s
    /\ last.req.email.s # KeyOf(last.req)
    /\ Has(StoredTable, KeyOf(prev.req))

\* last is a Login for the email that the Register just before it created
LoginAfterRegister ==
    /\ Registered201(prev)
    /\ last.req.op = "login"
    /\ KeyOf(last.req) = KeyOf(prev.req)

LoginAsRegistered ==
    LoginAfterRegister /\ PwOf(last.req) = PwOf(prev.req)

\* the first half of C4: the Login(e, p) that follows a
\* Register(e, p) 201 answers 200 with exactly the stored email and the
\* created_at that Register wrote, and no password_hash.
C4_LoginSucceeds ==
    LoginAsRegistered =>
        /\ last.resp.status = 200
        /\ last.resp.body.message = "Login successful"
        /\ DOMAIN last.resp.body = {"message", "user"}
        /\ DOMAIN last.resp.body.user = {"email", "created_at"}
        /\ last.resp.body.user.email = KeyOf(prev.req)
        /\ last.resp.body.user.created_at = prev.created
        /\ Has(StoredTable, KeyOf(prev.req))
        /\ Get(StoredTable, KeyOf(prev.req)).c = prev.created
        /\ Get(StoredTable, KeyOf(prev.req)).k = last.resp.body.user.email

\* C4 as stated: the same, and Login(e, q) with any q different from p
\* answers 401.
C4_AnyOtherPassword401 ==
    /\ C4_LoginSucceeds
    /\ (LoginAfterRegister /\ PwOf(last.req) # PwOf(prev.req))
           => last.resp.status = 401

\* C4, as the code has it: the Login(e, p) that follows a Register(e, p) 201
\* answers 200 with exactly the stored email and created_at and no
\* password_hash, and Login(e, q) with q different from p answers 401 when q
\* is not empty, and 400 when q is empty.
C4_LoginAfterRegister ==
    /\ C4_LoginSucceeds
    /\ (LoginAfterRegister /\ PwOf(last.req) # PwOf(prev.req))
           => IF PwOf(last.req).s # <<>>
              THEN last.resp = Response(401, "Invalid email or password")
              ELSE last.resp.status = 400

\* the Login with the registered password succeeded right after the Register
C4_Witness == LoginAsRegistered /\ last.resp.status = 200

\* a Login that passes the check for empty fields
LoginAttempt(req) == KeyOf(req) # <<>> /\ PwOf(req).s # <<>>

Verifies(users, req) ==
    /\ Has(users, KeyOf(req))
    /\ Get(users, KeyOf(req)).h # NoHash
    /\ check_password_hash(Get(users, KeyOf(req)).h, PwOf(req).s)

Without(users, k) ==
    LET keep == {i \in 1..Len(users) : users[i].k # k}
        RECURSIVE Take(_, _)
        Take(i, acc) ==
            IF i > Len(users) THEN acc
            ELSE Take(i + 1, IF i \in keep THEN Append(acc, users[i]) ELSE acc)
    IN Take(1, <<>>)

\* C5: Login does not reveal whether an account exists.  For a non-empty
\* normalized email and a non-empty password the response is the same 401 and
\* message when the email is not in the table, when it is there with another
\* password, and when its record has no password_hash; and the response to a
\* failing Login is the same with the email's record taken out of the store.
C5_NoAccountOracle ==
    /\ (/\ last.req.op = "login"
        /\ LoginAttempt(last.req)
        /\ ~Verifies(StoredTable, last.req))
       => last.resp = Response(401, "Invalid email or password")
    /\ \A req \in Requests("login") :
          (/\ LoginAttempt(req)
           /\ ParseKind(files[USERS_FILE].data) = "object"
           /\ ~Verifies(StoredTable, req))
          => login(files, req, NoFault).resp
               = login([files EXCEPT ![USERS_FILE] =
                           File(Serialize(Without(StoredTable, KeyOf(req))))],
                       req, NoFault).resp

\* a Login with a wrong password for a registered email was refused
C5_Witness ==
    /\ last.req.op = "login"
    /\ LoginAttempt(last.req)
    /\ Has(StoredTable, KeyOf(last.req))
    /\ Get(StoredTable, KeyOf(last.req)).h # NoHash
    /\ ~Verifies(StoredTable, last.req)
    /\ last.resp.status = 401

\* the inputs the validators of lines 55-60 refuse
C6_Invalid(req) ==
    \/ ~Contains(KeyOf(req), "@")
    \/ Len(KeyOf(req)) < 5
    \/ Len(PwOf(req).s) < 6

\* C6: Register answers 400 exactly when the normalized email has no "@" or
\* fewer than 5 characters, or the password has fewer than 6, whatever the
\* store holds; the check is made before the store is loaded.
C6_Validation ==
    last.req.op = "register" =>
        /\ last.resp.status = 400 <=> C6_Invalid(last.req)
        /\ last.resp.status = 400 => last.loads = 0
        /\ last.resp.status \in {400, 409, 201}

\* a short password with a valid email was refused while users.json held
\* content that does not parse, which is still in place
C6_Witness ==
    /\ last.req.op = "register"
    /\ last.resp.status = 400
    /\ Contains(KeyOf(last.req), "@") /\ Len(KeyOf(last.req)) >= 5
    /\ Len(PwOf(last.req).s) = 5
    /\ files[USERS_FILE].exists
    /\ ParseKind(files[USERS_FILE].data) = "malformed"

\* C7: Register calls save_users once when it answers 201 and never when it
\* answers 400 or 409; a refused Register leaves users.json as it was, and one
\* refused with 400 loads nothing and leaves every file as it was.
C7_SaveOnlyOnSuccess ==
    /\ [](last.req.op = "register" =>
            /\ last.resp.status = 201 => last.saves = 1
            /\ last.resp.status \in {400, 409} => last.saves = 0
            /\ last.resp.status = 400 => last.loads = 0)
    /\ [][last'.req.op = "register" =>
            /\ last'.resp.status \in {400, 409}
                  => files'[USERS_FILE] = files[USERS_FILE]
            /\ last'.resp.status = 400 => files' = files
            /\ last'.resp.status = 201
                  => /\ files'[USERS_FILE].exists
                     /\ files'[USERS_FILE] # files[USERS_FILE]]_vars

\* a Register was refused as a duplicate, after one load and without a save
C7_Witness ==
    /\ last.req.op = "register"
    /\ last.resp.status = 409
    /\ last.loads = 1 /\ last.saves = 0

----------------------------------------------------------------------------
(* Claims about the store *)

IsLoad(x) == x.req.op = "load"
IsSave(x) == x.req.op = "save"

Quarantined(f) ==
    [f EXCEPT ![CORRUPT_FILE] = f[USERS_FILE], ![USERS_FILE] = NoFile]

\* C8 as stated: when users.json exists and does not parse as a JSON object
\* (malformed text, or JSON whose top-level value is no object), Load returns
\* an empty table and, unless the rename fails, the content is moved to
\* users.json.corrupt and users.json is gone; when the file is absent Load
\* returns an empty table and changes nothing.
C8_QuarantineNonObject ==
    [][IsLoad(last') =>
        /\ KindOf(files) \in {"malformed", "nonobject"} =>
              /\ last'.users = <<>>
              /\ ~last'.flt.rename => files' = Quarantined(files)
        /\ KindOf(files) = "absent" =>
              last'.users = <<>> /\ files' = files]_vars

\* what load_users does instead.  Malformed JSON text: Load returns an empty table and moves the
\* content to users.json.corrupt, leaving no users.json (every file is left as
\* it was when the rename fails); JSON whose top-level value is no object:
\* Load returns an empty table and leaves users.json in place, no file is
\* renamed; absent file: Load returns an empty table and changes nothing.
C8_Quarantine ==
    [][IsLoad(last') =>
        /\ KindOf(files) = "malformed" =>
              /\ last'.users = <<>>
              /\ files' = IF last'.flt.rename THEN files ELSE Quarantined(files)
        /\ KindOf(files) = "nonobject" =>
              last'.users = <<>> /\ files' = files
        /\ KindOf(files) = "absent" =>
              last'.users = <<>> /\ files' = files]_vars

\* a Load found malformed text and moved it to users.json.corrupt
C8_Malformed ==
    /\ IsLoad(last)
    /\ last.seen = "malformed"
    /\ ~last.flt.rename
    /\ last.users = <<>>
    /\ ~files[USERS_FILE].exists
    /\ files[CORRUPT_FILE].exists
    /\ ParseKind(files[CORRUPT_FILE].data) = "malformed"

\* a Load found a JSON array and left it in place
C8_NonObject ==
    IsLoad(last) /\ last.seen = "nonobject" /\ KindOf(files) = "nonobject"

\* the one record a Register of req stores
IsRecordOf(e, req, now) ==
    /\ e.k = KeyOf(req)
    /\ check_password_hash(e.h, PwOf(req).s)
    /\ e.c = now

\* one step of the recovery, for a users.json whose content is of one of kinds
C9_Recovers(kinds) ==
    /\ (IsLoad(last') /\ last'.flt = NoFault /\ KindOf(files) \in kinds) =>
            /\ last'.users = <<>>
            /\ files'[CORRUPT_FILE] = files[USERS_FILE]
    /\ (/\ IsLoad(last) /\ last.flt = NoFault /\ last.seen \in kinds
        /\ last'.req.op = "register"
        /\ ~C6_Invalid(last'.req)) =>
            /\ last'.resp.status = 201
            /\ KindOf(files') = "object"
            /\ Len(ParseTable(files'[USERS_FILE].data)) = 1
            /\ IsRecordOf(ParseTable(files'[USERS_FILE].data)[1],
                          last'.req, last'.created)
            /\ files[CORRUPT_FILE].exists
            /\ files'[CORRUPT_FILE] = files[CORRUPT_FILE]

\* C9: corrupt-file recovery.  With content that is not JSON in users.json, a
\* Load returns an empty table and leaves the content under
\* users.json.corrupt; the Register with valid input that follows answers 201,
\* and then users.json holds a JSON object with exactly the new record while
\* users.json.corrupt still holds the original content.
C9_CorruptRecovery == [][C9_Recovers({"malformed", "undecodable"})]_vars

\* the same for content that is text (valid UTF-8) but not JSON
C9_TextRecovery == [][C9_Recovers({"malformed"})]_vars

\* a Register created a fresh table right after a Load quarantined the file
C9_Recovered ==
    /\ IsLoad(prev) /\ prev.seen = "malformed" /\ prev.flt = NoFault
    /\ last.req.op = "register" /\ last.resp.status = 201
    /\ Len(StoredTable) = 1
    /\ files[CORRUPT_FILE].exists

\* C10: round trip.  For every table T, a Save(T) that does not fail followed
\* by a Load with no write in between returns a table equal to T key for key
\* and field for field, whatever users.json held before the Save.
C10_RoundTrip ==
    /\ (IsSave(last) /\ last.flt.save = "ok") =>
          \A flt \in LoadFaults :
              TableFn(load_users(files, flt).users) = TableFn(last.users)
    /\ (IsLoad(last) /\ IsSave(prev) /\ prev.flt.save = "ok") =>
          /\ TableFn(last.users) = TableFn(prev.users)
          /\ Len(last.users) = Len(prev.users)

\* a Load returned the two records a Save had written over unparseable content
C10_Witness ==
    /\ IsLoad(last) /\ IsSave(prev) /\ prev.flt.save = "ok"
    /\ prev.seen \in {"malformed", "undecodable", "nonobject"}
    /\ Len(prev.users) = 2
    /\ TableFn(last.users) = TableFn(prev.users)

----------------------------------------------------------------------------
(* Claims about the concurrent service *)

\* content that is exactly what one save_users call serializes
Complete(file) ==
    /\ ParseKind(file.data) = "object"
    /\ file.data = Serialize(ParseTable(file.data))

\* C1: atomic replacement.  Under any interleaving of concurrent requests,
\* several Register requests saving at the same time included, every Load
\* reads users.json as absent or as a complete serialized table written by
\* one Save; no Load observes partially-written content.
C1_AtomicReplace ==
    [][\A t \in Threads :
          Load(t) => (files[USERS_FILE].exists => Complete(files[USERS_FILE]))
      ]_vars

----------------------------------------------------------------------------
(* Further claims about the store *)

\* C11: Load is idempotent in its result.  Whatever users.json holds (nothing,
\* a JSON object, JSON that is no object, malformed content), two Loads in a
\* row, with no Save in between, return equal tables, also when the first
\* Load renamed the file.
C11_LoadIdempotent ==
    /\ (IsLoad(last) /\ IsLoad(prev)) => TableFn(last.users) = TableFn(prev.users)
    /\ \A first \in LoadFaults, second \in LoadFaults :
          LET ld == load_users(files, first) IN
          TableFn(load_users(ld.files, second).users) = TableFn(ld.users)

\* the first of two Loads moved malformed content away, the second found no
\* users.json, and both returned the empty table
C11_Witness ==
    /\ IsLoad(last) /\ IsLoad(prev)
    /\ prev.seen = "malformed" /\ ~prev.flt.rename
    /\ last.seen = "absent"
    /\ last.users = <<>> /\ prev.users = <<>>

----------------------------------------------------------------------------
(* Claims about the service on failing storage *)

\* the storage failures an exchange met
LoadFailed(x) == x.loads = 1 /\ x.flt.read /\ x.seen # "absent"
SaveFailed(x) == x.saves = 1 /\ x.flt.save # "ok"

\* users.json as the load_users call of exchange x left it, f being the files
\* before the exchange
AfterLoadOf(x, f) ==
    IF x.loads = 1 /\ x.seen = "malformed" /\ ~x.flt.read /\ ~x.flt.rename
    THEN NoFile ELSE f[USERS_FILE]

\* C12: storage failures are not escalated to the request.  When the Save
\* fails (opening or writing the temporary file, or replacing users.json)
\* Register still answers 201 and users.json keeps the content it had before
\* the Save; when the Load fails Register and Login go on as with an empty
\* table; and every response of such an execution has a status among 200,
\* 201, 400, 401 and 409.
C12_FaultsContained ==
    [][/\ (LoadFailed(last') \/ SaveFailed(last'))
            => last'.resp.status \in {200, 201, 400, 401, 409}
       /\ SaveFailed(last')
            => /\ last'.resp = Created201
               /\ files'[USERS_FILE] = AfterLoadOf(last', files)
       /\ (LoadFailed(last') /\ last'.req.op = "register")
            => /\ last'.resp = Created201
               /\ last'.saves = 1
               /\ last'.flt.save = "ok"
                    => /\ KindOf(files') = "object"
                       /\ Keys(ParseTable(files'[USERS_FILE].data))
                            = {KeyOf(last'.req)}
       /\ (LoadFailed(last') /\ last'.req.op = "login")
            => /\ last'.resp = Unauthorized401
               /\ files' = files
      ]_vars

\* a Register was answered 201 although its Save could not replace
\* users.json, which still holds the table without the new record
C12_Witness ==
    /\ last.req.op = "register" /\ last.resp.status = 201
    /\ last.saves = 1 /\ last.flt.save = "replace" /\ ~last.flt.read
    /\ last.seen = "object"
    /\ ~Has(StoredTable, KeyOf(last.req))
    /\ files[TMP_FILE].exists

----------------------------------------------------------------------------
(* Claims about request bodies *)

\* a field read as the claim reads it: a string as it is, anything else, and
\* any field of a body that is no object, as the empty string
AsString(req, v) ==
    IF req.body = "object" /\ v.t = "str" THEN v.s ELSE <<>>

\* a body with a missing or malformed part
Malformed(req) ==
    \/ req.body # "object"
    \/ req.email.t # "str"
    \/ req.password.t # "str"

\* C13: for every shape of the request body (none, not JSON, JSON that is no
\* object, an object whose email or password is missing, null or no string)
\* Register takes the missing or malformed parts as empty strings and answers
\* 400, Login answers 400 when the resulting email or password is empty, and
\* neither answers with a status outside 200, 201, 400, 401 and 409.
C13_MalformedBody400 ==
    /\ (last.req.op = "register" /\ Malformed(last.req))
          => last.resp.status = 400
    /\ (/\ last.req.op = "login"
        /\ \/ Normalize(AsString(last.req, last.req.email)) = <<>>
           \/ AsString(last.req, last.req.password) = <<>>)
          => last.resp.status = 400
    /\ last.req.op \in {"register", "login"}
          => last.resp.status \in {200, 201, 400, 401, 409}

\* what the handlers do with the shapes that do not raise: a body that is
\* missing, not JSON or falsy, and fields that are missing or null, are taken
\* as empty strings
C13_MissingAs400 ==
    (/\ last.req.op \in {"register", "login"}
     /\ last.req.body \in {"none", "object"}
     /\ last.req.email.t \in {"str", "null"}
     /\ last.req.password.t \in {"str", "null"}
     /\ Malformed(last.req))
        => last.resp.status = 400

----------------------------------------------------------------------------
(* Further claims about the concurrent service *)

AllIdle == \A t \in Threads : th[t].pc = "idle"

\* every request is answered, two Registers of different emails were both
\* answered 201, and users.json holds a table with one of the two records
\* and without the other
LostUpdate ==
    /\ AllIdle
    /\ KindOf(files) = "object"
    /\ \E k1 \in hist.acked, k2 \in hist.acked :
          /\ k1 # k2
          /\ Has(StoredTable, k1)
          /\ ~Has(StoredTable, k2)

\* C14: lost update.  Two Registers of different valid emails that run at the
\* same time can both load the table as it was, both answer 201, and leave a
\* users.json with only one of the two records; with the requests handled
\* strictly one after the other no such state is reached.
C14_LostUpdateNeedsOverlap == LostUpdate => hist.overlap

\* both Registers were answered 201 and only one record is stored
C14_Witness ==
    /\ LostUpdate
    /\ hist.acked = {EmailA, EmailX}
    /\ Len(StoredTable) = 1
    /\ ~files[CORRUPT_FILE].exists

\* two Registers answered 201 one after the other, and both records are stored
C14_WitnessSerial ==
    /\ AllIdle /\ ~hist.overlap
    /\ hist.acked = {EmailA, EmailX}
    /\ Keys(StoredTable) = {EmailA, EmailX}

\* a key as register stores it, and a record with both its fields
NormalizedEmail(k) ==
    /\ k # <<>>
    /\ Contains(k, "@")
    /\ Len(k) >= 5
    /\ Lower(k) = k
    /\ Strip(k) = k

\* C15: starting from an absent or empty store, after any sequence and any
\* interleaving of Register and Login requests every key of the table in
\* users.json is a normalized email (not empty, with an "@", at least 5
\* characters, no uppercase letter, no whitespace at either end) and every
\* record has a password_hash and a created_at.
C15_KeysNormalized ==
    \A i \in 1..Len(StoredTable) :
        /\ NormalizedEmail(StoredTable[i].k)
        /\ StoredTable[i].h # NoHash
        /\ StoredTable[i].c # NoTime

\* requests that ran at the same time left a table with two records, one of
\* them registered as " X@y.z"
C15_Witness ==
    /\ hist.overlap
    /\ KindOf(files) = "object"
    /\ Keys(StoredTable) = {EmailA, EmailX}
    /\ EmailX \in hist.acked

----------------------------------------------------------------------------
(* Further claims about the sequential service *)

\* every record of users.json that a Register answered 201 for is still there
\* after the step, with the same password_hash and created_at
RecordsKept ==
    \A i \in 1..Len(StoredTable) :
      StoredTable[i].k \in hist.acked =>
        /\ files'[USERS_FILE].exists
        /\ ParseKind(files'[USERS_FILE].data) = "object"
        /\ Has(ParseTable(files'[USERS_FILE].data), StoredTable[i].k)
        /\ Get(ParseTable(files'[USERS_FILE].data), StoredTable[i].k)
             = StoredTable[i]

\* C16: records are never updated or deleted.  In sequential execution, once
\* a Register was answered 201 and its Save succeeded, the record stays in
\* users.json with the same password_hash and created_at after every later
\* Register and Login, also when a later Load fails with an I/O or
\* permission error or a later Save fails.
C16_RecordsKept == [][RecordsKept]_vars

\* the same for the requests whose Load does not fail
C16_RecordsKeptWhenRead == [][~LoadFailed(last') => RecordsKept]_vars

\* C19: Login is read-only with respect to the user table.  It never calls
\* save_users and never creates users.json or users.json.tmp, and whenever
\* users.json holds a valid JSON object every file is identical before and
\* after the Login, whatever the response.
C19_LoginReadOnly ==
    [][last'.req.op = "login" =>
          /\ last'.saves = 0
          /\ files'[USERS_FILE].exists => files[USERS_FILE].exists
          /\ files'[TMP_FILE] = files[TMP_FILE]
          /\ KindOf(files) = "object" => files' = files]_vars

\* a Login was answered 200 from a users.json that holds the account, and no
\* users.json.tmp is there
C19_Witness ==
    /\ last.req.op = "login"
    /\ last.resp.status = 200
    /\ last.loads = 1
    /\ KindOf(files) = "object"
    /\ Has(StoredTable, KeyOf(last.req))
    /\ ~files[TMP_FILE].exists

----------------------------------------------------------------------------
(* Concurrent service started on an unparseable store, and startup *)

\* C17: from an absent store or a users.json holding a valid table, under any
\* interleaving of concurrent Register and Login requests, no Load takes the
\* corrupt-file branch: users.json is never renamed to users.json.corrupt.
C17_NoQuarantine ==
    /\ ~files[CORRUPT_FILE].exists
    /\ \A t \in Threads : th[t].pc # "quarantine"

\* C18: the quarantine rename only moves the content that failed to parse.
\* Under any interleaving of a Load that found users.json unparseable with
\* concurrent Register requests, the file the rename of lines 33-35 moves to
\* users.json.corrupt is the one the Load read, and never a table that a Save
\* put in users.json between the failed parse and the rename.
C18_QuarantineMovesRead ==
    [][\A t \in Threads :
          (Quarantine(t) /\ files[USERS_FILE].exists)
              => /\ files[USERS_FILE].data = th[t].read.data
                 /\ ParseKind(files[USERS_FILE].data) = "malformed"]_vars

\* what os.environ.get("PORT", "5000") is for the process
PortText == IF proc.environ.set THEN proc.environ.s ELSE DefaultPortText

\* the port the startup rule chooses
ChosenPort ==
    IF Len(proc.argv) > 1 /\ IsInt(proc.argv[2]) THEN IntOf(proc.argv[2])
    ELSE IntOf(PortText)

\* C20: startup port selection always reaches a listening state.  The port
\* is the value of PORT (5000 when unset), replaced by the first argument
\* when that is numeric, and the environment's value with a warning when the
\* argument is not numeric; for every combination of environment value and
\* argument main goes on to start the server on that port on 127.0.0.1.
C20_PortSelection ==
    /\ proc.pc # "raised"
    /\ proc.pc = "serving" =>
          /\ proc.host = Loopback
          /\ proc.port = <<ChosenPort>>
          /\ proc.warned <=> (Len(proc.argv) > 1 /\ ~IsInt(proc.argv[2]))

\* the same for the environments whose PORT is unset or numeric
C20_NumericPortEnv ==
    IsInt(PortText) =>
        /\ proc.pc # "raised"
        /\ proc.pc = "serving" =>
              /\ proc.host = Loopback
              /\ proc.port = <<ChosenPort>>
              /\ proc.warned <=> (Len(proc.argv) > 1 /\ ~IsInt(proc.argv[2]))

\* a non-numeric argument was passed over with a warning and the server is
\* started on the port of the environment
C20_Fallback ==
    /\ proc.pc = "serving"
    /\ proc.environ.set /\ proc.port = <<IntOf(proc.environ.s)>>
    /\ Len(proc.argv) > 1 /\ ~IsInt(proc.argv[2])
    /\ proc.warned

====
